---- MODULE Spec2Model ----
(***************************************************************************)
(* Personal finance manager (src/main.py): the expense store, its backups  *)
(* and the menu flows that read and rewrite them.                          *)
(*                                                                         *)
(* Text is a sequence of one-character strings, a CSV row is a sequence of *)
(* fields and a file is a sequence of rows: the csv module's quoting is a  *)
(* library round trip, the repository's own encoding is Expense.to_row and *)
(* Expense.from_row.  A float is [k, m]: k = "num" with m the value in     *)
(* thousandths, or k in {"nan", "inf", "ninf"}.  Writes are taken to       *)
(* succeed; a read can fail on the content of the file (BadByte).          *)
(***************************************************************************)
EXTENDS Integers, Sequences, FiniteSets, TLC

VARIABLES pc, store, backups, op, out, prev, snap, steps

vars == <<pc, store, backups, op, out, prev, snap, steps>>

(***************************************************************************)
(* Text helpers (str.strip, int(), float(), format ".2f").                 *)
(***************************************************************************)
Digits == {"0", "1", "2", "3", "4", "5", "6", "7", "8", "9"}

DigitVal(c) ==
    CASE c = "0" -> 0 [] c = "1" -> 1 [] c = "2" -> 2 [] c = "3" -> 3
      [] c = "4" -> 4 [] c = "5" -> 5 [] c = "6" -> 6 [] c = "7" -> 7
      [] c = "8" -> 8 [] c = "9" -> 9

DigitChar(n) ==
    CASE n = 0 -> "0" [] n = 1 -> "1" [] n = 2 -> "2" [] n = 3 -> "3"
      [] n = 4 -> "4" [] n = 5 -> "5" [] n = 6 -> "6" [] n = 7 -> "7"
      [] n = 8 -> "8" [] n = 9 -> "9"

AllDigits(s) == \A i \in 1..Len(s) : s[i] \in Digits

RECURSIVE DigitsVal(_)
DigitsVal(s) ==
    IF s = <<>> THEN 0
    ELSE 10 * DigitsVal(SubSeq(s, 1, Len(s) - 1)) + DigitVal(s[Len(s)])

RECURSIVE NatToStr(_)
NatToStr(n) ==
    IF n < 10 THEN <<DigitChar(n)>>
    ELSE NatToStr(n \div 10) \o <<DigitChar(n % 10)>>

\* str.strip(): leading and trailing blanks removed.
RECURSIVE LStrip(_)
LStrip(s) == IF s # <<>> /\ s[1] = " " THEN LStrip(Tail(s)) ELSE s

RECURSIVE RStrip(_)
RStrip(s) ==
    IF s # <<>> /\ s[Len(s)] = " " THEN RStrip(SubSeq(s, 1, Len(s) - 1)) ELSE s

Strip(s) == LStrip(RStrip(s))

Unsigned(s) == IF s # <<>> /\ s[1] \in {"+", "-"} THEN Tail(s) ELSE s

IsNeg(s) == s # <<>> /\ s[1] = "-"

\* int(s): blanks stripped, an optional sign, then decimal digits.
IntOk(s) == LET u == Unsigned(Strip(s)) IN u # <<>> /\ AllDigits(u)

IntVal(s) ==
    LET t == Strip(s) IN IF IsNeg(t) THEN 0 - DigitsVal(Unsigned(t)) ELSE DigitsVal(Unsigned(t))

\* float(s): blanks stripped, an optional sign, then "nan", "inf",
\* "infinity", or digits with an optional fraction (at least one digit).
\* Inputs carry at most three fraction digits and no exponent.
Err == [k |-> "err", m |-> 0]

Num(n) == [k |-> "num", m |-> n]

DotAt(u) == IF \E i \in 1..Len(u) : u[i] = "." THEN CHOOSE i \in 1..Len(u) : u[i] = "." ELSE 0

Pad3(f) == IF Len(f) = 0 THEN 0 ELSE IF Len(f) = 1 THEN 100 * DigitsVal(f)
           ELSE IF Len(f) = 2 THEN 10 * DigitsVal(f) ELSE DigitsVal(f)

Float(s) ==
    LET t == Strip(s)
        u == Unsigned(t)
        d == DotAt(u)
        ip == IF d = 0 THEN u ELSE SubSeq(u, 1, d - 1)
        fp == IF d = 0 THEN <<>> ELSE SubSeq(u, d + 1, Len(u))
        mag == 1000 * DigitsVal(ip) + Pad3(fp)
    IN  IF u = <<"n", "a", "n">> THEN [k |-> "nan", m |-> 0]
        ELSE IF u \in {<<"i", "n", "f">>, <<"i", "n", "f", "i", "n", "i", "t", "y">>}
             THEN [k |-> IF IsNeg(t) THEN "ninf" ELSE "inf", m |-> 0]
        ELSE IF /\ Len(ip) + Len(fp) > 0
                /\ Len(fp) <= 3
                /\ AllDigits(ip)
                /\ AllDigits(fp)
             THEN Num(IF IsNeg(t) THEN 0 - mag ELSE mag)
        ELSE Err

\* v >= 0 on floats: false for nan and for -inf.
NonNeg(v) == \/ v.k = "inf"
             \/ v.k = "num" /\ v.m >= 0

\* f"{v:.2f}": two decimals, rounded to the nearest hundredth.
Cents(n) == LET a == IF n < 0 THEN 0 - n ELSE n
            IN  (a \div 10) + (IF a % 10 >= 5 THEN 1 ELSE 0)

Fmt2(v) ==
    IF v.k = "nan" THEN <<"n", "a", "n">>
    ELSE IF v.k = "inf" THEN <<"i", "n", "f">>
    ELSE IF v.k = "ninf" THEN <<"-", "i", "n", "f">>
    ELSE LET c == Cents(v.m)
         IN  (IF v.m < 0 THEN <<"-">> ELSE <<>>)
             \o NatToStr(c \div 100) \o <<".">>
             \o <<DigitChar((c % 100) \div 10), DigitChar(c % 10)>>

(***************************************************************************)
(* Configuration.                                                          *)
(***************************************************************************)
CSV_HEADER ==
    << <<"D", "a", "t", "e">>,
       <<"C", "a", "t", "e", "g", "o", "r", "y">>,
       <<"A", "m", "o", "u", "n", "t">>,
       <<"D", "e", "s", "c", "r", "i", "p", "t", "i", "o", "n">> >>

Food == <<"F", "o", "o", "d">>
Transport == <<"T", "r", "a", "n", "s", "p", "o", "r", "t">>
Entertainment == <<"E", "n", "t", "e", "r", "t", "a", "i", "n", "m", "e", "n", "t">>
Shopping == <<"S", "h", "o", "p", "p", "i", "n", "g">>
Bills == <<"B", "i", "l", "l", "s">>
Health == <<"H", "e", "a", "l", "t", "h">>
Education == <<"E", "d", "u", "c", "a", "t", "i", "o", "n">>
Other == <<"O", "t", "h", "e", "r">>

CATEGORIES == {Food, Transport, Entertainment, Shopping, Bills, Health, Education, Other}

\* datetime.now().strftime("%Y-%m-%d"): the day the program runs.
Today == <<"2", "0", "2", "6", "-", "1", "1", "-", "0", "5">>

(***************************************************************************)
(* Validation.                                                             *)
(***************************************************************************)
IsLeap(y) == (y % 4 = 0 /\ y % 100 # 0) \/ y % 400 = 0

DaysIn(y, m) ==
    IF m = 2 THEN (IF IsLeap(y) THEN 29 ELSE 28)
    ELSE IF m \in {4, 6, 9, 11} THEN 30 ELSE 31

\* strptime's %m: 1[0-2] | 0[1-9] | [1-9]
MonthField(f) ==
    \/ Len(f) = 2 /\ f[1] = "1" /\ f[2] \in {"0", "1", "2"}
    \/ Len(f) = 2 /\ f[1] = "0" /\ f[2] \in Digits \ {"0"}
    \/ Len(f) = 1 /\ f[1] \in Digits \ {"0"}

\* strptime's %d: 3[0-1] | [1-2]\d | 0[1-9] | [1-9] | " "[1-9]
DayField(f) ==
    \/ Len(f) = 2 /\ f[1] = "3" /\ f[2] \in {"0", "1"}
    \/ Len(f) = 2 /\ f[1] \in {"1", "2"} /\ f[2] \in Digits
    \/ Len(f) = 2 /\ f[1] = "0" /\ f[2] \in Digits \ {"0"}
    \/ Len(f) = 1 /\ f[1] \in Digits \ {"0"}
    \/ Len(f) = 2 /\ f[1] = " " /\ f[2] \in Digits \ {"0"}

\* datetime.strptime(s, "%Y-%m-%d") succeeds: the whole of s matches
\* \d{4}-%m-%d and the fields make a date datetime accepts (year >= 1).
valid_date(s) ==
    \E ml \in 1..2 :
        /\ Len(s) >= 7 + ml
        /\ Len(s) <= 8 + ml
        /\ AllDigits(SubSeq(s, 1, 4))
        /\ s[5] = "-"
        /\ MonthField(SubSeq(s, 6, 5 + ml))
        /\ s[6 + ml] = "-"
        /\ DayField(SubSeq(s, 7 + ml, Len(s)))
        /\ LET y == DigitsVal(SubSeq(s, 1, 4))
               m == DigitsVal(SubSeq(s, 6, 5 + ml))
               d == DigitsVal(LStrip(SubSeq(s, 7 + ml, Len(s))))
           IN  y >= 1 /\ d <= DaysIn(y, m)

valid_amount(s) == LET v == Float(s) IN v # Err /\ NonNeg(v)

(***************************************************************************)
(* Data model.                                                             *)
(***************************************************************************)
Expense(a, c, d, t) == [amount |-> a, category |-> c, date |-> d, description |-> t]

to_row(e) == <<e.date, e.category, Fmt2(e.amount), e.description>>

\* float(row[2]) raises on a non-numeric amount field.
from_row_raises(row) == Float(row[3]) = Err

from_row(row) ==
    Expense(Float(row[3]), row[2], row[1], IF Len(row) > 3 THEN row[4] ELSE <<>>)

(***************************************************************************)
(* File operations.  A row holding BadByte cannot be decoded as UTF-8: the *)
(* reader raises when it reaches it.                                       *)
(***************************************************************************)
BadByte == "\\xff"

ReadRaises(row) == \E i \in 1..Len(row) : \E j \in 1..Len(row[i]) : row[i][j] = BadByte

ensure_data_file(f) == IF f.exists THEN f ELSE [exists |-> TRUE, rows |-> <<CSV_HEADER>>]

\* The description field required too.
too_short_4(row) == Len(row) < 4

\* not row or len(row) < 3
too_short(row) == Len(row) < 3

RECURSIVE LoadRows(_, _, _)
LoadRows(file, i, expenses) ==
    IF i > Len(file) THEN expenses
    ELSE IF ReadRaises(file[i]) THEN expenses
    ELSE IF i = 1 THEN LoadRows(file, i + 1, expenses)
    ELSE IF too_short(file[i]) THEN LoadRows(file, i + 1, expenses)
    ELSE IF from_row_raises(file[i]) THEN LoadRows(file, i + 1, expenses)
    ELSE LoadRows(file, i + 1, Append(expenses, from_row(file[i])))

load_expenses(file) == LoadRows(file, 1, <<>>)

\* The header row forgotten.
save_expenses_NoHeader(expenses) == [i \in 1..Len(expenses) |-> to_row(expenses[i])]

save_expenses(expenses) ==
    <<CSV_HEADER>> \o [i \in 1..Len(expenses) |-> to_row(expenses[i])]

append_expense(file, e) == Append(file, to_row(e))

(***************************************************************************)
(* Backup and restore.  backups is the backup directory in list_backups    *)
(* order (file names sort by their timestamp).                             *)
(***************************************************************************)
\* A backup taken within the second of the newest one gets its name and
\* overwrites it; a later one is a new file.
create_backup(bk, file, sameSecond) ==
    IF sameSecond /\ bk # <<>> THEN [bk EXCEPT ![Len(bk)] = file] ELSE Append(bk, file)

list_backups(bk) == bk

\* The 1-based choice used as the index.
restore_idx_NoOffset(choice) == IntVal(choice)

restore_idx(choice) == IntVal(choice) - 1

\* The store after restore_backup() when the user answers choice.
restore_backup(bk, file, choice) ==
    LET list == list_backups(bk)
        c == Strip(choice)
    IN  IF list = <<>> THEN file
        ELSE IF c = <<>> THEN file
        ELSE IF ~IntOk(c) THEN file
        ELSE IF restore_idx(c) < 0 \/ restore_idx(c) >= Len(list) THEN file
        ELSE list[restore_idx(c) + 1]

(***************************************************************************)
(* Menu flows.  Each flow is a function of the text the user types; the    *)
(* result says what the flow did (status) and what it left in the store.   *)
(***************************************************************************)
\* expenses[i] with Python's indexing: i >= 0 from the front, i < 0 from
\* the back.
PyIndex(n, i) == IF i >= 0 THEN i + 1 ELSE n + i + 1

AmountAccepted(a) == valid_amount(Strip(a))

DateAccepted(d) == Strip(d) = <<>> \/ valid_date(Strip(d))

\* The first answer each re-prompting loop accepts (0: none of them).
RECURSIVE FirstAmount(_, _)
FirstAmount(answers, i) ==
    IF i > Len(answers) THEN 0
    ELSE IF AmountAccepted(answers[i]) THEN i
    ELSE FirstAmount(answers, i + 1)

RECURSIVE FirstDate(_, _)
FirstDate(answers, i) ==
    IF i > Len(answers) THEN 0
    ELSE IF DateAccepted(answers[i]) THEN i
    ELSE FirstDate(answers, i + 1)

\* The category stored as typed.
add_category_Unchecked(cat) == IF Strip(cat) = <<>> THEN Other ELSE Strip(cat)

\* cat = input(...).strip() or "Other"; unrecognised -> "Other".
add_category(cat) ==
    LET c == IF Strip(cat) = <<>> THEN Other ELSE Strip(cat)
    IN  IF c \notin CATEGORIES THEN Other ELSE c

add_date(d) == IF Strip(d) = <<>> THEN Today ELSE Strip(d)

\* The record add_expense_flow builds once both loops have an answer.
add_expense_flow(amts, cat, dates, desc) ==
    LET amt == Strip(amts[FirstAmount(amts, 1)])
        date == add_date(dates[FirstDate(dates, 1)])
    IN  Expense(Float(amt), add_category(cat), date, Strip(desc))

\* The selection prompt shared by the edit and delete flows:
\* "empty", "cancelled", "invalid input", "invalid number" or "ok".
\* The lower bound forgotten.
select_in_range_NoLower(i, n) == ~(i >= n)

select_in_range(i, n) == ~(i < 0 \/ i >= n)

selection(expenses, idx) ==
    IF expenses = <<>> THEN "empty"
    ELSE IF Strip(idx) = <<>> THEN "cancelled"
    ELSE IF ~IntOk(Strip(idx)) THEN "invalid input"
    ELSE IF ~select_in_range(IntVal(Strip(idx)) - 1, Len(expenses)) THEN "invalid number"
    ELSE "ok"

selected(expenses, idx) == PyIndex(Len(expenses), IntVal(Strip(idx)) - 1)

\* The new amount stored without validation.
edit_amount_Unchecked(e, new_amt) ==
    IF new_amt # <<>> /\ Float(new_amt) # Err THEN Float(new_amt) ELSE e.amount

edit_amount(e, new_amt) ==
    IF new_amt # <<>> /\ valid_amount(new_amt) THEN Float(new_amt) ELSE e.amount

edit_category(e, new_cat) ==
    IF new_cat # <<>> THEN (IF new_cat \in CATEGORIES THEN new_cat ELSE Other)
    ELSE e.category

edit_date(e, new_date) ==
    IF new_date # <<>> /\ valid_date(new_date) THEN new_date ELSE e.date

\* The description overwritten by a blank answer.
edit_description_Overwrite(e, new_desc) == new_desc

edit_description(e, new_desc) == IF new_desc # <<>> THEN new_desc ELSE e.description

edit_record(e, new_amt, new_cat, new_date, new_desc) ==
    Expense(edit_amount(e, Strip(new_amt)), edit_category(e, Strip(new_cat)),
            edit_date(e, Strip(new_date)), edit_description(e, Strip(new_desc)))

\* The list saved on the paths that cancel, too.
edit_expense_flow_SaveOnCancel(file, expenses, idx, new_amt, new_cat, new_date, new_desc) ==
    IF selection(expenses, idx) # "ok"
    THEN [status |-> selection(expenses, idx), file |-> save_expenses(expenses)]
    ELSE LET i == selected(expenses, idx)
             e == edit_record(expenses[i], new_amt, new_cat, new_date, new_desc)
         IN  [status |-> "updated", file |-> save_expenses([expenses EXCEPT ![i] = e])]

\* edit_expense_flow(expenses) on the file it was loaded from.
edit_expense_flow(file, expenses, idx, new_amt, new_cat, new_date, new_desc) ==
    IF selection(expenses, idx) # "ok"
    THEN [status |-> selection(expenses, idx), file |-> file]
    ELSE LET i == selected(expenses, idx)
             e == edit_record(expenses[i], new_amt, new_cat, new_date, new_desc)
         IN  [status |-> "updated", file |-> save_expenses([expenses EXCEPT ![i] = e])]

pop(expenses, i) ==
    SubSeq(expenses, 1, i - 1) \o SubSeq(expenses, i + 1, Len(expenses))

\* The confirmation compared without regard to case.
confirmed_AnyCase(confirm) == Strip(confirm) \in {<<"Y", "E", "S">>, <<"y", "e", "s">>}

confirmed(confirm) == Strip(confirm) = <<"Y", "E", "S">>

\* delete_expense_flow(expenses) on the file it was loaded from.
delete_expense_flow(file, expenses, idx, confirm) ==
    IF selection(expenses, idx) # "ok"
    THEN [status |-> selection(expenses, idx), file |-> file]
    ELSE IF confirmed(confirm)
    THEN [status |-> "deleted",
          file |-> save_expenses(pop(expenses, selected(expenses, idx)))]
    ELSE [status |-> "deletion cancelled", file |-> file]

(***************************************************************************)
(* What the user types, and the files the program may find at start.       *)
(***************************************************************************)
Blank == <<>>

A_12_5 == <<"1", "2", ".", "5">>
A_7_456 == <<" ", "7", ".", "4", "5", "6">>
A_neg5 == <<"-", "5">>
A_abc == <<"a", "b", "c">>
A_nan == <<"n", "a", "n">>

C_Food == <<" ", "F", "o", "o", "d", " ">>
C_food == <<"f", "o", "o", "d">>

D_leap == <<"2", "0", "2", "4", "-", "0", "2", "-", "2", "9">>
D_feb30 == <<"2", "0", "2", "4", "-", "0", "2", "-", "3", "0">>
D_short == <<"2", "0", "2", "4", "-", "1", "-", "5">>

T_tea == <<"t", "e", "a", " ">>

N0 == <<"0">>
N1 == <<"1">>
N2 == <<" ", "2">>
N9 == <<"9">>
Nneg == <<"-", "1">>
Nx == <<"x">>

YES == <<"Y", "E", "S">>
Yes == <<"y", "e", "s">>

\* One text per branch of the main menu, and four it does not know.
MenuChoices ==
    {<<"1">>, <<"2">>, <<"3">>, <<" ", "4">>, <<"7">>, <<"8">>, <<"1", "0">>,
     <<"0">>, <<"1", "1">>, <<"0", "1">>, Blank}

SubChoices == {<<"1">>, <<"2">>, <<"3">>, <<"4">>}

\* Answers to a whole flow.  A re-prompting loop is answered until it
\* accepts: every answer but the last is one it rejects.
AddAnswers ==
    { [amts |-> <<A_12_5>>, cat |-> C_Food, dates |-> <<Blank>>, desc |-> Blank],
      [amts |-> <<A_neg5, A_abc, Blank, A_nan, A_7_456>>, cat |-> C_food,
       dates |-> <<D_feb30, D_short>>, desc |-> T_tea] }

EditAnswers ==
    { [new_amt |-> A_neg5, new_cat |-> Blank, new_date |-> D_feb30, new_desc |-> Blank],
      [new_amt |-> A_7_456, new_cat |-> C_food, new_date |-> D_leap, new_desc |-> T_tea] }

Selections == {Blank, N0, N1, N2, Nx}

Confirmations == {YES, Yes}

\* The same flows answered in every combination, for the claims about one
\* run of a flow.
AllAddAnswers ==
    [amts : {<<A_12_5>>, <<A_neg5, A_7_456>>, <<A_abc, Blank, A_nan, A_12_5>>},
     cat : {Blank, C_Food, C_food, Bills},
     dates : {<<Blank>>, <<D_feb30, D_short>>, <<D_leap>>},
     desc : {Blank, T_tea}]

AllEditAnswers ==
    [new_amt : {Blank, A_abc, A_neg5, A_7_456},
     new_cat : {Blank, C_Food, C_food, Bills},
     new_date : {Blank, D_feb30, D_short},
     new_desc : {Blank, T_tea}]

AllSelections == {Blank, N0, N1, N2, N9, Nneg, Nx}

AllConfirmations == {YES, Yes, <<" ", "Y", "E", "S", " ">>, <<"Y">>, Blank}

NoEditAnswers == [new_amt |-> Blank, new_cat |-> Blank, new_date |-> Blank, new_desc |-> Blank]

Row1 == <<D_leap, Food, <<"1", "2", ".", "5", "0">>, <<"t", "e", "a">> >>
Row2 == <<D_short, <<"m", "i", "s", "c">>, <<"3", ".", "2", "3", "9">> >>
RowShort == <<D_leap, Food>>
RowCorrupt == <<D_leap, Food, A_abc, Blank>>
RowBad == <<D_leap, <<"c", "a", "f", BadByte>>, <<"4", ".", "0", "0">>, Blank>>

InitialFiles ==
    { [exists |-> FALSE, rows |-> <<>>],
      [exists |-> TRUE, rows |-> <<CSV_HEADER, RowCorrupt, Row1, RowShort, Row2>>],
      [exists |-> TRUE, rows |-> <<CSV_HEADER, RowBad, Row1>>] }

MoreFiles ==
    { [exists |-> TRUE, rows |-> <<CSV_HEADER, Row1, Row2, Row1>>],
      [exists |-> TRUE, rows |-> <<CSV_HEADER, Row2, RowBad, Row1>>],
      [exists |-> TRUE, rows |-> <<CSV_HEADER, Row2>>] }

(***************************************************************************)
(* The main menu loop.  One action per branch of main_menu; each runs the  *)
(* whole flow.  op and out record the call and its outcome, prev the files *)
(* before it, snap the records held when the first backup was taken.       *)
(***************************************************************************)
MaxSteps == 4

main_menu(choice) ==
    LET c == Strip(choice)
    IN  CASE c = <<"1">> -> "add"
          [] c = <<"2">> -> "view"
          [] c = <<"3">> -> "edit"
          [] c = <<"4">> -> "delete"
          [] c = <<"5">> -> "search"
          [] c = <<"6">> -> "reports"
          [] c = <<"7">> -> "export"
          [] c = <<"8">> -> "backup"
          [] c = <<"9">> -> "json"
          [] c = <<"1", "0">> -> "exit"
          [] OTHER -> "invalid"

Files == [store |-> store, backups |-> backups]

NoSnap == [taken |-> FALSE, records |-> <<>>]

StartFrom(files) ==
    /\ pc = "menu"
    /\ store \in {ensure_data_file(f).rows : f \in files}
    /\ backups = <<>>
    /\ op = [name |-> "start"]
    /\ out = "start"
    /\ prev = [store |-> <<>>, backups |-> <<>>]
    /\ snap = NoSnap
    /\ steps = 0

Init == StartFrom(InitialFiles)

Begin(choice, name) ==
    /\ pc = "menu"
    /\ steps < MaxSteps
    /\ main_menu(choice) = name
    /\ steps' = steps + 1
    /\ prev' = Files

Add(answers) ==
    \E choice \in MenuChoices :
        /\ Begin(choice, "add")
        /\ \E a \in answers :
            /\ FirstAmount(a.amts, 1) = Len(a.amts)
            /\ FirstDate(a.dates, 1) = Len(a.dates)
            /\ store' = append_expense(store, add_expense_flow(a.amts, a.cat, a.dates, a.desc))
            /\ op' = [name |-> "add", choice |-> choice, answers |-> a]
        /\ out' = "added"
        /\ UNCHANGED <<pc, backups, snap>>

Read ==
    \E choice \in MenuChoices :
        /\ \E name \in {"view", "search", "reports", "json"} : Begin(choice, name)
        /\ op' = [name |-> main_menu(choice), choice |-> choice]
        /\ out' = "shown"
        /\ UNCHANGED <<pc, store, backups, snap>>

\* Answers a flow never asks for are left unanswered.
Edit(selections, answers) ==
    \E choice \in MenuChoices :
        /\ Begin(choice, "edit")
        /\ LET exps == load_expenses(store)
           IN  \E idx \in selections :
                LET sel == selection(exps, idx)
                IN  /\ sel = "empty" => idx = Blank
                    /\ \E a \in IF sel = "ok" THEN answers ELSE {NoEditAnswers} :
                        LET r == edit_expense_flow(store, exps, idx, a.new_amt, a.new_cat,
                                                   a.new_date, a.new_desc)
                        IN  /\ store' = r.file
                            /\ out' = r.status
                            /\ op' = [name |-> "edit", choice |-> choice, idx |-> idx,
                                      answers |-> a]
        /\ UNCHANGED <<pc, backups, snap>>

Delete(selections, confirmations) ==
    \E choice \in MenuChoices :
        /\ Begin(choice, "delete")
        /\ LET exps == load_expenses(store)
           IN  \E idx \in selections :
                LET sel == selection(exps, idx)
                IN  /\ sel = "empty" => idx = Blank
                    /\ \E confirm \in IF sel = "ok" THEN confirmations ELSE {Blank} :
                        LET r == delete_expense_flow(store, exps, idx, confirm)
                        IN  /\ store' = r.file
                            /\ out' = r.status
                            /\ op' = [name |-> "delete", choice |-> choice, idx |-> idx,
                                      confirm |-> confirm]
        /\ UNCHANGED <<pc, backups, snap>>

\* snap after create_backup(): the first backup into an empty directory
\* records what the store held; overwriting that file forgets it.
Snapped(sameSecond) ==
    IF backups = <<>> THEN [taken |-> TRUE, records |-> load_expenses(store)]
    ELSE IF sameSecond /\ Len(backups) = 1 THEN NoSnap
    ELSE snap

Backup ==
    /\ \E sameSecond \in IF backups = <<>> THEN {FALSE} ELSE BOOLEAN :
        /\ backups' = create_backup(backups, store, sameSecond)
        /\ snap' = Snapped(sameSecond)
    /\ out' = "backup created"
    /\ UNCHANGED <<pc, store>>

\* export_options_flow: 1 exports JSON, 2 creates a backup, anything else
\* cancels.
Export ==
    \E choice \in MenuChoices :
        /\ Begin(choice, "export")
        /\ \E sub \in SubChoices :
            /\ op' = [name |-> "export", choice |-> choice, sub |-> sub]
            /\ IF Strip(sub) = <<"2">> THEN Backup
               ELSE /\ out' = (IF Strip(sub) = <<"1">> THEN "shown" ELSE "cancelled")
                    /\ UNCHANGED <<pc, store, backups, snap>>

restore_status(bk, choice) ==
    IF list_backups(bk) = <<>> THEN "no backups"
    ELSE IF Strip(choice) = <<>> THEN "cancelled"
    ELSE IF ~IntOk(Strip(choice)) THEN "restore failed"
    ELSE IF restore_idx(Strip(choice)) < 0 \/ restore_idx(Strip(choice)) >= Len(list_backups(bk))
         THEN "invalid selection"
    ELSE "restored"

\* backup_and_restore_flow: 1 creates a backup, 2 restores, 3 lists the
\* backups, anything else cancels.
BackupRestore(selections) ==
    \E choice \in MenuChoices :
        /\ Begin(choice, "backup")
        /\ \E sub \in SubChoices :
            IF Strip(sub) = <<"1">>
            THEN /\ op' = [name |-> "backup", choice |-> choice, sub |-> sub, sel |-> Blank]
                 /\ Backup
            ELSE IF Strip(sub) = <<"2">>
            THEN \E sel \in IF backups = <<>> THEN {Blank} ELSE selections :
                    /\ op' = [name |-> "backup", choice |-> choice, sub |-> sub, sel |-> sel]
                    /\ store' = restore_backup(backups, store, sel)
                    /\ out' = restore_status(backups, sel)
                    /\ UNCHANGED <<pc, backups, snap>>
            ELSE /\ op' = [name |-> "backup", choice |-> choice, sub |-> sub, sel |-> Blank]
                 /\ out' = (IF Strip(sub) = <<"3">> THEN "listed" ELSE "cancelled")
                 /\ UNCHANGED <<pc, store, backups, snap>>

Invalid ==
    \E choice \in MenuChoices :
        /\ Begin(choice, "invalid")
        /\ op' = [name |-> "invalid", choice |-> choice]
        /\ out' = "invalid choice"
        /\ UNCHANGED <<pc, store, backups, snap>>

Exit ==
    \E choice \in MenuChoices :
        /\ Begin(choice, "exit")
        /\ pc' = "exit"
        /\ op' = [name |-> "exit", choice |-> choice]
        /\ out' = "goodbye"
        /\ UNCHANGED <<store, backups, snap>>

MenuAdd == Add(AddAnswers)
MenuEdit == Edit(Selections, EditAnswers)
MenuDelete == Delete(Selections, Confirmations)
MenuBackupRestore == BackupRestore(Selections)

Next ==
    \/ MenuAdd
    \/ Read
    \/ MenuEdit
    \/ MenuDelete
    \/ Export
    \/ MenuBackupRestore
    \/ Invalid
    \/ Exit

Spec == Init /\ [][Next]_vars

(***************************************************************************)
(* One run of one flow, answered in every combination, from each of the    *)
(* files the program may find.                                             *)
(***************************************************************************)
InitFlow == StartFrom(InitialFiles \cup MoreFiles)

FlowAdd == steps = 0 /\ Add(AllAddAnswers)
FlowRead == steps = 0 /\ Read
FlowEdit == steps = 0 /\ Edit(AllSelections, AllEditAnswers)
FlowDelete == steps = 0 /\ Delete(AllSelections, AllConfirmations)

NextFlow ==
    \/ FlowAdd
    \/ FlowRead
    \/ FlowEdit
    \/ FlowDelete

SpecFlow == InitFlow /\ [][NextFlow]_vars

(***************************************************************************)
(* load_expenses() and save_expenses(load_expenses()) on any file of up to *)
(* MaxFileRows rows.                                                       *)
(***************************************************************************)
MaxFileRows == 4

RowNeg == <<D_feb30, Blank, <<" ", "-", "5", ".", "0", "0", "4">>, Blank, <<"x">> >>
RowNan == <<Blank, Food, A_nan, Blank>>
FileRows == {CSV_HEADER, Row2, RowShort, RowCorrupt, RowBad, RowNeg, RowNan}

RECURSIVE FilesOfLen(_)
FilesOfLen(n) ==
    IF n = 0 THEN {<<>>}
    ELSE {Append(f, r) : f \in FilesOfLen(n - 1), r \in FileRows}

AnyFiles ==
    {[exists |-> FALSE, rows |-> <<>>]}
        \cup {[exists |-> TRUE, rows |-> f] : f \in UNION {FilesOfLen(n) : n \in 0..MaxFileRows}}

InitFile ==
    /\ pc = "file"
    /\ store \in {ensure_data_file(f).rows : f \in AnyFiles}
    /\ backups = <<>>
    /\ op = [name |-> "start"]
    /\ out = <<>>
    /\ prev = [store |-> <<>>, backups |-> <<>>]
    /\ snap = NoSnap
    /\ steps = 0

\* exps = load_expenses()
FileLoad ==
    /\ pc = "file"
    /\ pc' = "loaded"
    /\ op' = [name |-> "load"]
    /\ out' = load_expenses(store)
    /\ prev' = Files
    /\ UNCHANGED <<store, backups, snap, steps>>

\* save_expenses(load_expenses())
FileSaveLoad ==
    /\ pc = "file"
    /\ pc' = "saved"
    /\ op' = [name |-> "save_load"]
    /\ out' = load_expenses(store)
    /\ store' = save_expenses(load_expenses(store))
    /\ prev' = Files
    /\ UNCHANGED <<backups, snap, steps>>

NextFile ==
    \/ FileLoad
    \/ FileSaveLoad

SpecFile == InitFile /\ [][NextFile]_vars

(***************************************************************************)
(* valid_date on date-like texts.                                          *)
(***************************************************************************)
YearTexts ==
    {<<"2", "0", "2", "4">>, <<"2", "0", "2", "3">>, <<"1", "9", "0", "0">>,
     <<"2", "0", "0", "0">>, <<"0", "0", "0", "0">>, <<"2", "0", "2">>, <<"2", "0", "2", "4", "0">>}

MonthTexts == {<<"0", "2">>, <<"2">>, <<"1", "2">>, <<"1", "3">>, <<"0", "0">>, <<"0", "4">>, <<"0">>}

DayTexts ==
    {<<"2", "9">>, <<"3", "0">>, <<"3", "1">>, <<"2", "8">>, <<"5">>, <<"0", "5">>,
     <<" ", "5">>, <<"0", "0">>, <<"3", "2">>, <<"0">>}

Trailers == {Blank, <<" ">>, <<"1">>, <<"x">>}

Separators == {<<"-">>, <<"/">>, Blank}

DateTexts ==
    {y \o p \o m \o p \o d \o t :
        y \in YearTexts, p \in Separators, m \in MonthTexts, d \in DayTexts, t \in Trailers}

InitDate ==
    /\ pc = "date"
    /\ op \in [name : {"date"}, s : DateTexts]
    /\ out = "unchecked"
    /\ store = <<>>
    /\ backups = <<>>
    /\ prev = [store |-> <<>>, backups |-> <<>>]
    /\ snap = NoSnap
    /\ steps = 0

CheckDate ==
    /\ pc = "date"
    /\ pc' = "checked"
    /\ out' = (IF valid_date(op.s) THEN "valid" ELSE "invalid")
    /\ UNCHANGED <<store, backups, op, prev, snap, steps>>

NextDate == CheckDate

SpecDate == InitDate /\ [][NextDate]_vars

(***************************************************************************)
(* Properties.                                                             *)
(***************************************************************************)
\* What the flow just run had loaded, and the selection it was given.
Loaded == load_expenses(prev.store)

IsRecordRow(row) == Len(row) >= 3 /\ Float(row[3]) # Err

Dashes(s) == {i \in 1..Len(s) : s[i] = "-"}

\* s reads as year-month-day, the three numbers naming a day of the
\* calendar.
CalendarDate(s) ==
    /\ Cardinality(Dashes(s)) = 2
    /\ LET d1 == CHOOSE i \in Dashes(s) : \A j \in Dashes(s) : i <= j
           d2 == CHOOSE i \in Dashes(s) : \A j \in Dashes(s) : i >= j
           y == SubSeq(s, 1, d1 - 1)
           m == SubSeq(s, d1 + 1, d2 - 1)
           d == LStrip(SubSeq(s, d2 + 1, Len(s)))
       IN  /\ Len(y) = 4 /\ Len(m) \in 1..2 /\ Len(d) \in 1..2
           /\ AllDigits(y) /\ AllDigits(m) /\ AllDigits(d)
           /\ DigitsVal(y) >= 1
           /\ DigitsVal(m) \in 1..12
           /\ DigitsVal(d) \in 1..DaysIn(DigitsVal(y), DigitsVal(m))

ValidSelection(idx, n) ==
    /\ IntOk(Strip(idx))
    /\ IntVal(Strip(idx)) >= 1
    /\ IntVal(Strip(idx)) <= n

BadSelection(idx, n) == Strip(idx) # <<>> /\ ~ValidSelection(idx, n)

\* C1: every record persisted in the store has amount >= 0 and a date that
\* parses as a valid calendar date, after any sequence of add, edit, delete,
\* backup and restore flows from a store of which that was true.
C1_PersistedRecordsValid ==
    \A i \in 2..Len(store) :
        IsRecordRow(store[i]) =>
            /\ NonNeg(Float(store[i][3]))
            /\ CalendarDate(store[i][1])

\* C1's case: an edit answered with an invalid amount and an invalid date
\* has rewritten a store of at least two records.
C1_Witness ==
    /\ op.name = "edit"
    /\ out = "updated"
    /\ op.answers.new_amt = A_neg5
    /\ op.answers.new_date = D_feb30
    /\ Len(load_expenses(store)) >= 2
    /\ steps >= 2

\* C2: once create_backup() has run on an empty backup directory with the
\* store holding records R, restore_backup with selection 1 makes the store
\* decode back to exactly R, whatever add, edit and delete flows ran since.
C2_RestoreRoundTrip ==
    (/\ op.name = "backup"
     /\ Strip(op.sub) = <<"2">>
     /\ Strip(op.sel) = <<"1">>
     /\ snap.taken)
        => load_expenses(store) = snap.records

\* C2's case: the store was emptied of its two records after the backup,
\* and selection 1 was restored.
C2_Witness ==
    /\ op.name = "backup"
    /\ Strip(op.sub) = <<"2">>
    /\ Strip(op.sel) = <<"1">>
    /\ snap.taken
    /\ Len(snap.records) = 2
    /\ load_expenses(prev.store) = <<>>
    /\ load_expenses(store) = snap.records

\* C7: a selection that is not a number or is out of range, in the edit
\* flow, the delete flow or restore_backup, and a main menu choice outside
\* 1-10, leave the store and the backups unchanged and return to the menu.
C7_SelectionError ==
    \/ /\ op.name \in {"edit", "delete"}
       /\ Loaded # <<>>
       /\ BadSelection(op.idx, Len(Loaded))
    \/ /\ op.name = "backup"
       /\ Strip(op.sub) = <<"2">>
       /\ prev.backups # <<>>
       /\ BadSelection(op.sel, Len(prev.backups))
    \/ /\ op.name # "start"
       /\ Strip(op.choice) \notin {NatToStr(n) : n \in 1..10}

C7_SelectionErrorsChangeNothing ==
    C7_SelectionError => (store = prev.store /\ backups = prev.backups /\ pc = "menu")

\* C7's case: selection 0 (Python index -1) given to the edit flow over a
\* list of two records, with a backup on disk.
C7_Witness ==
    /\ op.name = "edit"
    /\ op.idx = N0
    /\ Len(Loaded) >= 2
    /\ backups # <<>>
    /\ C7_SelectionError
    /\ store = prev.store
    /\ pc = "menu"

Resolved(text) == IF text \in CATEGORIES THEN text ELSE Other

EditedOk == op.name = "edit" /\ Loaded # <<>> /\ ValidSelection(op.idx, Len(Loaded))

EditedRow == store[IntVal(Strip(op.idx)) + 1]

EditedFrom == Loaded[IntVal(Strip(op.idx))]

\* C5 as claimed: the add flow and the edit flow store every category input
\* as the fixed label it equals, and any other input as "Other".
C5_SameResolution ==
    /\ op.name = "add" => store[Len(store)][2] = Resolved(Strip(op.answers.cat))
    /\ EditedOk => EditedRow[2] = Resolved(Strip(op.answers.new_cat))

\* C5, amended: a non-blank category input is stored as the fixed label it
\* equals and otherwise as "Other", in both flows; a blank input is stored
\* as "Other" by the add flow and keeps the record's category in the edit
\* flow.
C5_ResolutionBlankKeeps ==
    /\ op.name = "add" => store[Len(store)][2] = Resolved(Strip(op.answers.cat))
    /\ EditedOk =>
        EditedRow[2] = IF Strip(op.answers.new_cat) = <<>> THEN EditedFrom.category
                       ELSE Resolved(Strip(op.answers.new_cat))

\* C5's case: an edit with a blank category input on a record whose
\* category is no fixed label.
C5_Witness ==
    /\ EditedOk
    /\ Strip(op.answers.new_cat) = <<>>
    /\ EditedFrom.category \notin CATEGORIES
    /\ EditedRow[2] = EditedFrom.category
    /\ out = "updated"

\* C8: an edit on a valid selection i keeps each field of record i whose
\* input is blank, and the amount or date whose input is invalid; the store
\* then holds the same number of records in the same order, every other
\* record as it was loaded.
C8_EditFrame ==
    EditedOk =>
        LET i == IntVal(Strip(op.idx))
            a == op.answers
        IN  /\ Len(store) = Len(Loaded) + 1
            /\ store[1] = CSV_HEADER
            /\ \A j \in 1..Len(Loaded) : j # i => store[j + 1] = to_row(Loaded[j])
            /\ (Strip(a.new_amt) = <<>> \/ ~valid_amount(Strip(a.new_amt)))
                => store[i + 1][3] = to_row(Loaded[i])[3]
            /\ Strip(a.new_cat) = <<>> => store[i + 1][2] = Loaded[i].category
            /\ (Strip(a.new_date) = <<>> \/ ~valid_date(Strip(a.new_date)))
                => store[i + 1][1] = Loaded[i].date
            /\ Strip(a.new_desc) = <<>> => store[i + 1][4] = Loaded[i].description
            /\ Len(store[i + 1]) = 4

\* C8's case: record 2 of three edited with an invalid amount, an invalid
\* date, a new category and a blank description.
C8_Witness ==
    /\ EditedOk
    /\ IntVal(Strip(op.idx)) = 2
    /\ Len(Loaded) = 3
    /\ op.answers.new_amt = A_abc
    /\ op.answers.new_date = D_feb30
    /\ op.answers.new_cat = Bills
    /\ op.answers.new_desc = Blank
    /\ EditedRow = <<EditedFrom.date, Bills, Fmt2(EditedFrom.amount), EditedFrom.description>>

\* C9: a delete on a valid selection k rewrites the store only when the
\* confirmation is YES; the new store is then the loaded sequence without
\* its k-th record, the others in their order; otherwise the store is
\* unchanged.
C9_DeleteOnlyOnYes ==
    (op.name = "delete" /\ Loaded # <<>> /\ ValidSelection(op.idx, Len(Loaded))) =>
        LET k == IntVal(Strip(op.idx))
        IN  IF Strip(op.confirm) = YES
            THEN /\ Len(store) = Len(Loaded)
                 /\ store[1] = CSV_HEADER
                 /\ \A j \in 1..(Len(Loaded) - 1) :
                        store[j + 1] = to_row(Loaded[IF j < k THEN j ELSE j + 1])
            ELSE store = prev.store

\* C9's case: the second of three records deleted on YES.
C9_Witness ==
    /\ op.name = "delete"
    /\ Len(Loaded) = 3
    /\ ValidSelection(op.idx, Len(Loaded))
    /\ IntVal(Strip(op.idx)) = 2
    /\ Strip(op.confirm) = YES
    /\ out = "deleted"
    /\ Len(store) = 3

\* C10: a flow that loaded an empty sequence does not rewrite the store, so
\* the content of a store whose read failed survives.
C10_EmptyLoadKeepsStore ==
    (op.name \in {"edit", "delete", "view", "search", "reports", "json"} /\ Loaded = <<>>)
        => store = prev.store

\* C10's case: the edit flow on a store whose read failed at its first
\* data row, a well-formed row after it.
C10_Witness ==
    /\ op.name = "edit"
    /\ Loaded = <<>>
    /\ Len(prev.store) >= 3
    /\ ReadRaises(prev.store[2])
    /\ IsRecordRow(prev.store[3])
    /\ store = prev.store

\* Two amounts that differ by formatting to two decimals at most.
SameAmount(a, b) ==
    /\ a.k = b.k
    /\ a.k = "num" => (a.m - b.m \in -5..5 /\ b.m % 10 = 0)

SameRecord(e, f) ==
    /\ SameAmount(e.amount, f.amount)
    /\ e.category = f.category
    /\ e.date = f.date
    /\ e.description = f.description

\* C3: save_expenses(load_expenses()) leaves the decoded content of any
\* store unchanged: a load after it returns the records of the load before
\* it, in order, amounts formatted to two decimals, and the file begins
\* with the header row.
C3_SaveLoadIdempotent ==
    pc = "saved" =>
        /\ store # <<>>
        /\ store[1] = CSV_HEADER
        /\ Len(load_expenses(store)) = Len(out)
        /\ \A i \in 1..Len(out) : SameRecord(out[i], load_expenses(store)[i])

\* C3's case: a store with a corrupt row, a short row and an amount of
\* three decimals was loaded and saved.
C3_Witness ==
    /\ pc = "saved"
    /\ prev.store = <<CSV_HEADER, RowCorrupt, Row2, RowShort>>
    /\ load_expenses(store) = <<Expense(Num(3240), Row2[2], Row2[1], Blank)>>

Readable(row) == ~ReadRaises(row)

WellFormed(row) == Readable(row) /\ Len(row) >= 3 /\ Float(row[3]) # Err

RECURSIVE Records(_)
Records(rows) ==
    IF rows = <<>> THEN <<>>
    ELSE IF WellFormed(rows[Len(rows)])
    THEN Append(Records(SubSeq(rows, 1, Len(rows) - 1)), from_row(rows[Len(rows)]))
    ELSE Records(SubSeq(rows, 1, Len(rows) - 1))

\* The rows read before the first one that cannot be read.
ReadPrefix(file) ==
    IF \A i \in 1..Len(file) : Readable(file[i]) THEN file
    ELSE SubSeq(file, 1, (CHOOSE i \in 1..Len(file) :
                            ~Readable(file[i]) /\ \A j \in 1..(i - 1) : Readable(file[j])) - 1)

StrictDate(s) ==
    /\ Len(s) = 10
    /\ \A i \in {1, 2, 3, 4, 6, 7, 9, 10} : s[i] \in Digits
    /\ s[5] = "-"
    /\ s[8] = "-"
    /\ DigitsVal(SubSeq(s, 6, 7)) \in 1..12
    /\ DigitsVal(SubSeq(s, 9, 10)) \in
            1..DaysIn(DigitsVal(SubSeq(s, 1, 4)), DigitsVal(SubSeq(s, 6, 7)))

\* C6: valid_date(s) is true exactly when s has the form YYYY-MM-DD with a
\* 2-digit month 01-12 and a 2-digit day of that month and year.
C6_ValidDateIsStrict ==
    pc = "checked" => (out = "valid" <=> StrictDate(op.s))

====
